---- MODULE Spec2Model ----
(***************************************************************************)
(* Model of libflux/flux-core/src/bin/analyze_query_log.rs: the three      *)
(* stage pipeline of main (dispatcher, comparator pool, reporter) that     *)
(* join3 runs on the rayon thread pool, connected by two bounded           *)
(* crossbeam channels.                                                     *)
(***************************************************************************)
EXTENDS Integers, Sequences, FiniteSets, TLC

(* ------------------------------ bounds -------------------------------- *)

\* longest corpus enumerated with every mix of item kinds
MaxCorpus == 2
\* largest value of --skip that is enumerated (skip may also be unset)
MaxSkip == 1
\* largest size of the rayon pool that is enumerated
MaxThreads == 3
\* length of the one long, uniform corpus (fills both channels, two heartbeats)
LongLen == 200

(* ------------------------- program constants -------------------------- *)

\* channels that take one item more
ChanCap_wide == 128 + 1
\* crossbeam_channel::bounded(128), both channels
ChanCap == 128
\* count % 100 == 0
HeartbeatEvery == 100

(* --------------------------- the analyzers ---------------------------- *)

\* sample source texts, one per behaviour of the pair of analyzers
Texts == {"aa", "ea", "ae", "ee", "pa", "ap"}

OkResult == [tag |-> "Ok", error |-> <<>>]
ErrResult(e) == [tag |-> "Err", error |-> e]
PanicResult == [tag |-> "Panic", error |-> <<>>]

\* analyzer().analyze_source(.., &source): the default configuration
Baseline(text) ==
  CASE text \in {"aa", "ae", "ap"} -> OkResult
    [] text \in {"ea", "ee"} -> ErrResult(<<"current", text>>)
    [] text \in {"pa"} -> PanicResult

\* new_analyzer().analyze_source(.., &source): the new features enabled
Candidate(text) ==
  CASE text \in {"aa", "ea", "pa"} -> OkResult
    [] text \in {"ae", "ee"} -> ErrResult(<<"new", text>>)
    [] text \in {"ap"} -> PanicResult

\* err.error.pretty(&source)
Pretty(err, source) == <<"pretty", err, source>>

(* ------------------------------- state -------------------------------- *)

VARIABLES
  corpus,    \* the elements the corpus iterator yields, in order
  openOk,    \* whether sources() itself succeeds
  skip,      \* app.skip: [set |-> BOOLEAN, val |-> Nat]
  nthreads,  \* number of threads of the rayon pool
  thr,       \* what each rayon thread is running
  dpc,       \* dispatcher: "open", "next", "send", "ok", "err"
  di,        \* dispatcher: the enumerate() index of the next element
  dheld,     \* dispatcher: the (i, source) it is sending
  chan1,     \* (tx, rx): queue of (i, source)
  pool,      \* comparator pool: "pending", "running", "ok", "err", "panic"
  full,      \* the try_for_each short-circuit flag
  wk,        \* per thread, the par_bridge worker it runs
  chan2,     \* (final_tx, final_rx): number of queued () signals
  rpc,       \* reporter: "pending", "run", "done"
  count,     \* count
  stderr,    \* the lines written to the error stream
  exit,      \* "running", "ok", "error", "panic"
  sentLog,   \* history: every (i, source) sent on tx, in order
  recvLog,   \* history: every (i, source) received from rx, in order
  sigCount,  \* history: per item index, the () sent on final_tx for it
  fast,      \* the Some("flux") arm: [pc, readable, source, error], pc "none" elsewhere
  channels,  \* whether the two channels have been created
  calls      \* history: how often each analyzer was invoked

vars == <<corpus, openOk, skip, nthreads, thr, dpc, di, dheld, chan1, pool,
          full, wk, chan2, rpc, count, stderr, exit, sentLog, recvLog, sigCount,
          fast, channels, calls>>

Threads == 1..nthreads

\* one Result<String> of the corpus iterator
GoodRow(text) == [ok |-> TRUE, text |-> text]
BadRow == [ok |-> FALSE, text |-> ""]
Rows == {GoodRow(t) : t \in Texts} \cup {BadRow}

SeqsUpTo(S, n) == UNION {[1..k -> S] : k \in 0..n}

SmallCorpora == SeqsUpTo(Rows, MaxCorpus)
LongCorpus == [k \in 1..LongLen |-> GoodRow("aa")]
\* the pool sizes the long corpus is run on
LongPools == {1, 2}

SkipUnset == [set |-> FALSE, val |-> 0]
SkipOf(k) == [set |-> TRUE, val |-> k]
Skips == {SkipUnset} \cup {SkipOf(k) : k \in 0..MaxSkip}

NoItem == <<>>
IdleWorker == [pc |-> "unstarted", i |-> 0, text |-> ""]

\* one line group on the error stream
Line(kind, n, text, detail) == [kind |-> kind, n |-> n, text |-> text, detail |-> detail]

NoFast == [pc |-> "none", readable |-> FALSE, source |-> "", error |-> <<>>]
NoCalls == [current |-> 0, new |-> 0]

\* the state when join3 has handed the three closures to rayon: the thread
\* that picked up the injected job runs the first closure at once
Start(c, o, s, n) ==
  /\ corpus = c
  /\ openOk = o
  /\ skip = s
  /\ nthreads = n
  /\ thr = [t \in 1..n |-> IF t = 1 THEN "disp" ELSE "idle"]
  /\ dpc = "open"
  /\ di = 0
  /\ dheld = NoItem
  /\ chan1 = <<>>
  /\ pool = "pending"
  /\ full = FALSE
  /\ wk = [t \in 1..n |-> IdleWorker]
  /\ chan2 = 0
  /\ rpc = "pending"
  /\ count = 0
  /\ stderr = <<>>
  /\ exit = "running"
  /\ sentLog = <<>>
  /\ recvLog = <<>>
  /\ sigCount = [i \in 0..(Len(c) - 1) |-> 0]
  /\ fast = NoFast
  /\ channels = TRUE
  /\ calls = NoCalls

\* the state at the Some("flux") arm of the match on the extension, for a
\* file that read_to_string can or cannot read: nothing of the pipeline
\* exists
FluxStart(source, readable) ==
  /\ corpus = <<>>
  /\ openOk = TRUE
  /\ skip = SkipUnset
  /\ nthreads = 1
  /\ thr = [t \in 1..1 |-> "idle"]
  /\ dpc = "never"
  /\ di = 0
  /\ dheld = NoItem
  /\ chan1 = <<>>
  /\ pool = "never"
  /\ full = FALSE
  /\ wk = [t \in 1..1 |-> IdleWorker]
  /\ chan2 = 0
  /\ rpc = "never"
  /\ count = 0
  /\ stderr = <<>>
  /\ exit = "running"
  /\ sentLog = <<>>
  /\ recvLog = <<>>
  /\ sigCount = <<>>
  /\ fast = [pc |-> "flux", readable |-> readable, source |-> source, error |-> <<>>]
  /\ channels = FALSE
  /\ calls = NoCalls

Init ==
  \/ \E c \in SmallCorpora, s \in Skips, n \in 1..MaxThreads : Start(c, TRUE, s, n)
  \/ \E s \in Skips, n \in 1..MaxThreads : Start(<<>>, FALSE, s, n)
  \/ \E n \in LongPools : Start(LongCorpus, TRUE, SkipUnset, n)
  \/ \E source \in Texts, readable \in BOOLEAN : FluxStart(source, readable)

(* ----------------------------- dispatcher ----------------------------- *)

TxDropped == dpc \in {"ok", "err"}
PoolEnded == pool \in {"ok", "err", "panic"}
\* rx lives in the pool closure and is dropped when that closure is done
RxDropped == PoolEnded
\* a reporter whose loop ends whenever it finds the second channel empty
FinalTxDropped_eager == TRUE
\* final_tx lives in the pool closure as well
FinalTxDropped == PoolEnded
\* final_rx is consumed by the reporter's for loop
FinalRxDropped == rpc = "done"

DispThread == CHOOSE t \in Threads : thr[t] = "disp"

\* if let Some(skip) = app.skip { if i < skip { continue; } }
Skipped_inclusive(i) == skip.set /\ i <= skip.val
Skipped(i) == skip.set /\ i < skip.val

\* sources()?
DispOpen ==
  /\ dpc = "open"
  /\ IF openOk
       THEN /\ dpc' = "next"
            /\ thr' = thr
       ELSE /\ dpc' = "err"
            /\ thr' = [thr EXCEPT ![DispThread] = "idle"]
  /\ UNCHANGED <<corpus, openOk, skip, nthreads, di, dheld, chan1, pool, full,
                 wk, chan2, rpc, count, stderr, exit, sentLog, recvLog, sigCount,
                 fast, channels, calls>>

\* one turn of `for (i, result) in ...enumerate()` up to `result?`
DispNext ==
  /\ dpc = "next"
  /\ IF di >= Len(corpus)
       THEN /\ dpc' = "ok"
            /\ thr' = [thr EXCEPT ![DispThread] = "idle"]
            /\ UNCHANGED <<di, dheld>>
       ELSE LET i == di
                result == corpus[di + 1]
            IN  IF Skipped(i)
                  THEN /\ di' = di + 1
                       /\ UNCHANGED <<dpc, thr, dheld>>
                  ELSE IF ~result.ok
                    THEN /\ dpc' = "err"
                         /\ thr' = [thr EXCEPT ![DispThread] = "idle"]
                         /\ di' = di + 1
                         /\ UNCHANGED dheld
                    ELSE /\ dpc' = "send"
                         /\ dheld' = <<i, result.text>>
                         /\ di' = di + 1
                         /\ thr' = thr
  /\ UNCHANGED <<corpus, openOk, skip, nthreads, chan1, pool, full, wk, chan2,
                 rpc, count, stderr, exit, sentLog, recvLog, sigCount,
                 fast, channels, calls>>

\* tx.send((i, source))?
DispSend ==
  /\ dpc = "send"
  /\ IF RxDropped
       THEN /\ dpc' = "err"
            /\ thr' = [thr EXCEPT ![DispThread] = "idle"]
            /\ dheld' = NoItem
            /\ UNCHANGED <<chan1, sentLog>>
       ELSE /\ Len(chan1) < ChanCap
            /\ chan1' = Append(chan1, dheld)
            /\ sentLog' = Append(sentLog, dheld)
            /\ dheld' = NoItem
            /\ dpc' = "next"
            /\ thr' = thr
  /\ UNCHANGED <<corpus, openOk, skip, nthreads, di, pool, full, wk, chan2,
                 rpc, count, stderr, exit, recvLog, sigCount,
                 fast, channels, calls>>

(* --------------------------- rayon threads ---------------------------- *)

IdleThreads == {t \in Threads : thr[t] = "idle"}
\* a thread runs the par_bridge fold loop at most once (threads_started)
FreshIdle == {t \in IdleThreads : wk[t].pc = "unstarted"}
UsedIdle == IdleThreads \ FreshIdle
Least(S) == CHOOSE t \in S : \A u \in S : t <= u

\* a pool that is torn down as soon as one of its workers has panicked
WorkerOver_anyPanic(t) ==
  \/ wk[t].pc \in {"done", "err", "panicked"}
  \/ \E u \in Threads : wk[u].pc = "panicked"
\* the worker of thread t has left the fold loop
WorkerOver(t) == wk[t].pc \in {"done", "err", "panicked"}
Started == {t \in Threads : wk[t].pc # "unstarted"}

(* -------------------------- comparator pool --------------------------- *)

\* an idle thread takes the job of the inner rayon::join: it queues the
\* reporter closure and runs the pool closure, becoming its first worker
StartPool ==
  /\ pool = "pending"
  /\ IdleThreads # {}
  /\ LET t == Least(IdleThreads)
     IN  /\ thr' = [thr EXCEPT ![t] = "worker"]
         /\ wk' = [wk EXCEPT ![t].pc = "recv"]
  /\ pool' = "running"
  /\ UNCHANGED <<corpus, openOk, skip, nthreads, dpc, di, dheld, chan1, full,
                 chan2, rpc, count, stderr, exit, sentLog, recvLog, sigCount,
                 fast, channels, calls>>

\* another thread steals a split of the par_bridge producer; the reporter
\* closure is the oldest job of the deque, so it is always stolen first
StartWorker ==
  /\ pool = "running"
  /\ rpc # "pending"
  /\ FreshIdle # {}
  /\ LET t == Least(FreshIdle)
     IN  /\ thr' = [thr EXCEPT ![t] = IF full THEN "idle" ELSE "worker"]
         /\ wk' = [wk EXCEPT ![t].pc = IF full THEN "done" ELSE "recv"]
  /\ UNCHANGED <<corpus, openOk, skip, nthreads, dpc, di, dheld, chan1, pool,
                 full, chan2, rpc, count, stderr, exit, sentLog, recvLog, sigCount,
                 fast, channels, calls>>

\* what a receive leaves in the queue
Dequeue_peek(q) == q
Dequeue(q) == Tail(q)

\* a receiver that gives up as soon as the sender is gone
Disconnected_eager(q) == TxDropped
\* a receiver that gives up as soon as the queue is empty
Disconnected_impatient(q) == q = <<>>
\* the iterator over rx ends: the queue is empty and tx was dropped
Disconnected(q) == q = <<>> /\ TxDropped

\* rx.into_iter() .next() under the bridge's lock
WorkerRecv(t) ==
  /\ wk[t].pc = "recv"
  /\ IF Disconnected(chan1)
       THEN /\ wk' = [wk EXCEPT ![t] = [IdleWorker EXCEPT !.pc = "done"]]
            /\ thr' = [thr EXCEPT ![t] = "idle"]
            /\ UNCHANGED <<chan1, recvLog>>
       ELSE /\ chan1 # <<>>
            /\ wk' = [wk EXCEPT ![t].pc = "compare",
                                ![t].i = Head(chan1)[1],
                                ![t].text = Head(chan1)[2]]
            /\ chan1' = Dequeue(chan1)
            /\ recvLog' = Append(recvLog, Head(chan1))
            /\ thr' = thr
  /\ UNCHANGED <<corpus, openOk, skip, nthreads, dpc, di, dheld, pool, full,
                 chan2, rpc, count, stderr, exit, sentLog, sigCount,
                 fast, channels, calls>>

\* match catch_unwind(..) { Ok(x) => x, Err(_) => panic!(..) }: whether the
\* analysis ended in the Err(_) arm
Crashed_never(result) == FALSE
Crashed(result) == result.tag = "Panic"

\* the verdict match with the labels of the two divergence arms exchanged
Report_swapped(i, source, current_result, new_result) ==
  CASE current_result.tag = "Ok" /\ new_result.tag = "Ok" -> <<>>
    [] current_result.tag = "Err" /\ new_result.tag = "Ok" ->
         <<Line("new", i, source, Pretty(current_result.error, source))>>
    [] current_result.tag = "Ok" /\ new_result.tag = "Err" ->
         <<Line("missing", i, source, Pretty(new_result.error, source))>>
    [] OTHER -> <<>>

\* the verdict match without its (Ok(_), Err(err)) arm
Report_newSilent(i, source, current_result, new_result) ==
  CASE current_result.tag = "Ok" /\ new_result.tag = "Ok" -> <<>>
    [] current_result.tag = "Err" /\ new_result.tag = "Ok" ->
         <<Line("missing", i, source, Pretty(current_result.error, source))>>
    [] OTHER -> <<>>

\* the verdict match with the textual comparison of two rejections enabled
Report_diffing(i, source, current_result, new_result) ==
  CASE current_result.tag = "Ok" /\ new_result.tag = "Ok" -> <<>>
    [] current_result.tag = "Err" /\ new_result.tag = "Ok" ->
         <<Line("missing", i, source, Pretty(current_result.error, source))>>
    [] current_result.tag = "Ok" /\ new_result.tag = "Err" ->
         <<Line("new", i, source, Pretty(new_result.error, source))>>
    [] current_result.tag = "Err" /\ new_result.tag = "Err" ->
         IF Pretty(current_result.error, source) # Pretty(new_result.error, source)
           THEN <<Line("different", i, source,
                       <<Pretty(current_result.error, source),
                         Pretty(new_result.error, source)>>)>>
           ELSE <<>>
    [] OTHER -> <<>>

\* match (current_result, new_result): the lines it prints
Report(i, source, current_result, new_result) ==
  CASE current_result.tag = "Ok" /\ new_result.tag = "Ok" -> <<>>
    [] current_result.tag = "Err" /\ new_result.tag = "Ok" ->
         <<Line("missing", i, source, Pretty(current_result.error, source))>>
    [] current_result.tag = "Ok" /\ new_result.tag = "Err" ->
         <<Line("new", i, source, Pretty(new_result.error, source))>>
    [] OTHER -> <<>>

\* the body of the try_for_each closure for the item worker t holds, up to
\* the match: both analyses behind catch_unwind, then the verdict; a caught
\* panic is raised again with the item's index and source
Compare(t) ==
  /\ wk[t].pc = "compare"
  /\ LET i == wk[t].i
         source == wk[t].text
         current_result == Baseline(source)
         new_result == Candidate(source)
     IN  IF Crashed(current_result) \/ Crashed(new_result)
           THEN /\ wk' = [wk EXCEPT ![t].pc = "panicked"]
                /\ thr' = [thr EXCEPT ![t] = "idle"]
                /\ stderr' = Append(stderr, Line("panic", i, source, <<>>))
           ELSE /\ wk' = [wk EXCEPT ![t].pc = "send"]
                /\ thr' = thr
                /\ stderr' = stderr \o Report(i, source, current_result, new_result)
  /\ calls' = [current |-> calls.current + 1,
               new |-> calls.new + (IF Crashed(Baseline(wk[t].text)) THEN 0 ELSE 1)]
  /\ UNCHANGED <<corpus, openOk, skip, nthreads, dpc, di, dheld, chan1, pool,
                 full, chan2, rpc, count, exit, sentLog, recvLog, sigCount,
                 fast, channels>>

\* final_tx.send(())?; Ok(()) and the bridge's test of full()
SendCompletion(t) ==
  /\ wk[t].pc = "send"
  /\ IF FinalRxDropped
       THEN /\ wk' = [wk EXCEPT ![t].pc = "err"]
            /\ thr' = [thr EXCEPT ![t] = "idle"]
            /\ full' = TRUE
            /\ UNCHANGED <<chan2, sigCount>>
       ELSE /\ chan2 < ChanCap
            /\ chan2' = chan2 + 1
            /\ sigCount' = [sigCount EXCEPT ![wk[t].i] = @ + 1]
            /\ IF full
                 THEN /\ wk' = [wk EXCEPT ![t] = [IdleWorker EXCEPT !.pc = "done"]]
                      /\ thr' = [thr EXCEPT ![t] = "idle"]
                 ELSE /\ wk' = [wk EXCEPT ![t] = [IdleWorker EXCEPT !.pc = "recv"]]
                      /\ thr' = thr
            /\ full' = full
  /\ UNCHANGED <<corpus, openOk, skip, nthreads, dpc, di, dheld, chan1, pool,
                 rpc, count, stderr, exit, sentLog, recvLog, fast, channels,
                 calls>>

\* a pool whose workers' panics are swallowed
PoolResult_masked ==
  IF \E t \in Threads : wk[t].pc = "err" THEN "err" ELSE "ok"

\* what try_for_each hands back once every split is over
PoolResult ==
  IF \E t \in Threads : wk[t].pc = "panicked" THEN "panic"
  ELSE IF \E t \in Threads : wk[t].pc = "err" THEN "err"
  ELSE "ok"

\* the pool closure is over: rx and final_tx are dropped
PoolEnd ==
  /\ pool = "running"
  /\ \A t \in Started : WorkerOver(t)
  /\ pool' = PoolResult
  /\ UNCHANGED <<corpus, openOk, skip, nthreads, thr, dpc, di, dheld, chan1,
                 full, wk, chan2, rpc, count, stderr, exit, sentLog, recvLog,
                 sigCount,
                 fast, channels, calls>>

(* ------------------------------ reporter ------------------------------ *)

\* an idle thread takes the reporter closure queued by the inner join
StartReporter ==
  /\ pool # "pending"
  /\ rpc = "pending"
  /\ \E t \in (IF FreshIdle = {} THEN {} ELSE {Least(FreshIdle)}) \cup UsedIdle :
       thr' = [thr EXCEPT ![t] = "rep"]
  /\ rpc' = "run"
  /\ UNCHANGED <<corpus, openOk, skip, nthreads, dpc, di, dheld, chan1, pool,
                 full, wk, chan2, count, stderr, exit, sentLog, recvLog, sigCount,
                 fast, channels, calls>>

RepThread == CHOOSE t \in Threads : thr[t] = "rep"

\* a heartbeat test made before the increment
Heartbeat_stale(c) ==
  IF (c - 1) % HeartbeatEvery = 0 THEN <<Line("heartbeat", c - 1, "", <<>>)>> ELSE <<>>

\* the lines the reporter prints when count has become c
Heartbeat(c) ==
  IF c % HeartbeatEvery = 0 THEN <<Line("heartbeat", c, "", <<>>)>> ELSE <<>>

\* a count that starts over after each heartbeat
Tally_wrap(c) == (c + 1) % HeartbeatEvery
\* count += 1
Tally_twice(c) == c + 2
Tally(c) == c + 1

\* one turn of `for _ in final_rx`, or its end
ReporterStep ==
  /\ rpc = "run"
  /\ IF chan2 > 0
       THEN /\ chan2' = chan2 - 1
            /\ count' = Tally(count)
            /\ stderr' = stderr \o Heartbeat(Tally(count))
            /\ UNCHANGED <<rpc, thr>>
       ELSE /\ FinalTxDropped
            /\ rpc' = "done"
            /\ thr' = [thr EXCEPT ![RepThread] = "idle"]
            /\ UNCHANGED <<chan2, count, stderr>>
  /\ UNCHANGED <<corpus, openOk, skip, nthreads, dpc, di, dheld, chan1, pool,
                 full, wk, exit, sentLog, recvLog, sigCount,
                 fast, channels, calls>>

(* -------------------------------- main -------------------------------- *)

JoinDone == TxDropped /\ PoolEnded /\ rpc = "done"

\* result propagation that looks at the dispatcher's result only
Outcome_first(r, r2) == IF r = "err" THEN "error" ELSE "ok"

\* what main does with (r, r2, _): a panic of the pool is resumed by join,
\* then r?, r2?, then the summary
Outcome(r, r2) ==
  IF r2 = "panic" THEN "panic"
  ELSE IF r = "err" THEN "error"
  ELSE IF r2 = "err" THEN "error"
  ELSE "ok"

MainEnd ==
  /\ exit = "running"
  /\ JoinDone
  /\ exit' = Outcome(dpc, pool)
  /\ stderr' = IF Outcome(dpc, pool) = "ok"
                 THEN Append(stderr, Line("done", count, "", <<>>))
                 ELSE stderr
  /\ UNCHANGED <<corpus, openOk, skip, nthreads, thr, dpc, di, dheld, chan1,
                 pool, full, wk, chan2, rpc, count, sentLog, recvLog, sigCount,
                 fast, channels, calls>>

(* --------------------------- single file ----------------------------- *)

\* err.error.pretty_error()
PrettyError(err) == <<"pretty_error", err>>

\* the analyzer the Some("flux") arm runs: new_analyzer()
FluxAnalyzer_default(source) == Baseline(source)
FluxAnalyzer(source) == Candidate(source)

\* the Some("flux") arm: read the file, analyze it once, return from main
FastPath ==
  /\ fast.pc = "flux"
  /\ IF ~fast.readable
       THEN /\ exit' = "error"
            /\ fast' = [fast EXCEPT !.pc = "done", !.error = <<"io">>]
            /\ calls' = calls
       ELSE LET result == FluxAnalyzer(fast.source)
            IN  /\ calls' = [calls EXCEPT !.new = @ + 1]
                /\ exit' = CASE result.tag = "Ok" -> "ok"
                              [] result.tag = "Err" -> "error"
                              [] result.tag = "Panic" -> "panic"
                /\ fast' = [fast EXCEPT !.pc = "done",
                                        !.error = IF result.tag = "Err"
                                                    THEN PrettyError(result.error)
                                                    ELSE <<>>]
  /\ UNCHANGED <<corpus, openOk, skip, nthreads, thr, dpc, di, dheld, chan1,
                 pool, full, wk, chan2, rpc, count, stderr, sentLog, recvLog,
                 sigCount, channels>>

Next ==
  \/ FastPath
  \/ DispOpen
  \/ DispNext
  \/ DispSend
  \/ StartPool
  \/ StartWorker
  \/ \E t \in Threads : WorkerRecv(t)
  \/ \E t \in Threads : Compare(t)
  \/ \E t \in Threads : SendCompletion(t)
  \/ PoolEnd
  \/ StartReporter
  \/ ReporterStep
  \/ MainEnd

Spec == Init /\ [][Next]_vars

\* the steps of the worker that thread t runs
WorkerStep(t) == t \in Threads /\ (WorkerRecv(t) \/ Compare(t) \/ SendCompletion(t))

\* a thread that runs a stage keeps running it unless it is blocked on a
\* channel; an idle rayon thread takes a queued job; join returns once its
\* closures are over
Fairness ==
  /\ WF_vars(DispOpen \/ DispNext \/ DispSend)
  /\ \A t \in 1..MaxThreads : WF_vars(WorkerStep(t))
  /\ WF_vars(ReporterStep)
  /\ WF_vars(StartPool \/ StartWorker \/ StartReporter)
  /\ WF_vars(PoolEnd \/ MainEnd \/ FastPath)

\* the pool sizes of the runs that are followed to their end
LivePools == {1, 2, 3}

\* the runs followed to their end: every short corpus with skip unset, and
\* the long corpus on the pool of one thread
LiveInit ==
  /\ Init
  /\ skip = SkipUnset
  /\ nthreads \in LivePools
  /\ Len(corpus) > MaxCorpus => nthreads = 1

LiveSpec == LiveInit /\ [][Next]_vars /\ Fairness

(* ------------------------------ claims -------------------------------- *)

Range(q) == {q[k] : k \in 1..Len(q)}
AllRead == \A k \in 1..Len(corpus) : corpus[k].ok
NoCrash == \A t \in Threads : wk[t].pc # "panicked"
\* the skip value, unset behaving as 0
SkipVal == IF skip.set THEN skip.val ELSE 0
StderrOf(kind) == {k \in 1..Len(stderr) : stderr[k].kind = kind}

\* C1: once the dispatcher has returned, with a corpus of M rows that all
\* read successfully, 0 <= k <= M and no analyzer crash, what was sent on
\* the first channel is exactly the M - k pairs (i, text of row i) with
\* k <= i < M, each with its index in the corpus.
C1_SentIsSuffix ==
  (TxDropped /\ openOk /\ AllRead /\ NoCrash /\ SkipVal <= Len(corpus)) =>
    /\ Range(sentLog) = {<<i, corpus[i + 1].text>> : i \in SkipVal..(Len(corpus) - 1)}
    /\ Len(sentLog) = Len(corpus) - SkipVal

C1_Witness ==
  /\ dpc = "ok" /\ AllRead /\ NoCrash
  /\ skip = SkipOf(1) /\ Len(corpus) = 2
  /\ sentLog = <<<<1, corpus[2].text>>>>

\* some item sent on the first channel has not signalled its completion
Signalled == {i \in DOMAIN sigCount : sigCount[i] > 0}
Unsettled == \E k \in 1..Len(sentLog) : sigCount[sentLog[k][1]] = 0
\* every item sent so far has been compared and has signalled, or the run
\* has ended in failure
Settled ==
  \/ \A k \in 1..Len(sentLog) : sigCount[sentLog[k][1]] > 0
  \/ exit \in {"error", "panic"}
\* each of the two stages that wait for a thread gets one
StagesScheduled == <>(pool # "pending") /\ <>(rpc # "pending")

Indices == 0..(Len(corpus) - 1)
Received == {recvLog[k][1] : k \in 1..Len(recvLog)}
\* the items that workers hold
Held == {t \in Threads : wk[t].pc \in {"compare", "send"}}

\* C3: at every moment no item was sent twice; the receipts are the first
\* items sent, one receipt each, with the index and text they were sent
\* with; no two workers hold the same item; only a received item has
\* signalled completion, at most once, and never while a worker holds it.
C3_ExactlyOnce ==
  /\ \A k \in 1..(Len(sentLog) - 1) : sentLog[k][1] < sentLog[k + 1][1]
  /\ Len(recvLog) <= Len(sentLog)
  /\ \A k \in 1..Len(recvLog) : recvLog[k] = sentLog[k]
  /\ \A t, u \in Held : t # u => wk[t].i # wk[u].i
  /\ \A i \in Indices : sigCount[i] <= 1
  /\ Signalled \subseteq Received
  /\ \A t \in Held : wk[t].i \in Received /\ sigCount[wk[t].i] = 0

C3_Witness ==
  /\ Len(recvLog) = 2 /\ Signalled = {}
  /\ \E t, u \in Threads : t # u /\ wk[t].pc = "send" /\ wk[u].pc = "compare"

\* the items whose verdict match has run
Compared == Signalled \cup {wk[t].i : t \in {u \in Threads : wk[u].pc = "send"}}
TextOf(i) == corpus[i + 1].text
\* the positions of the lines of one kind that stderr holds for item i
LinesOf(kind, i) == {k \in 1..Len(stderr) : stderr[k].kind = kind /\ stderr[k].n = i}
Rejected(result) == result.tag = "Err"
Accepted(result) == result.tag = "Ok"

\* C4: for every item whose verdict match has run with the baseline
\* rejecting and the candidate accepting, stderr holds exactly one "missing
\* errors" report for the item, made of its index, its source text and the
\* rendering of the baseline's error, and no "new errors" report for it.
C4_MissingErrors ==
  \A i \in Compared :
    (Rejected(Baseline(TextOf(i))) /\ Accepted(Candidate(TextOf(i)))) =>
      /\ Cardinality(LinesOf("missing", i)) = 1
      /\ \A k \in LinesOf("missing", i) :
           stderr[k] = [kind |-> "missing", n |-> i, text |-> TextOf(i),
                        detail |-> <<"pretty", <<"current", TextOf(i)>>, TextOf(i)>>]
      /\ LinesOf("new", i) = {}

C4_Witness ==
  /\ exit = "ok" /\ Len(corpus) = 2 /\ corpus[2].text = "ea" /\ corpus[1].text = "aa"
  /\ LinesOf("missing", 1) # {} /\ 1 \in Signalled

\* C5: for every item whose verdict match has run with the baseline
\* accepting and the candidate rejecting, stderr holds exactly one "new
\* errors" report for the item, made of its index, its source text and the
\* rendering of the candidate's error, and no "missing errors" report for it.
C5_NewErrors ==
  \A i \in Compared :
    (Accepted(Baseline(TextOf(i))) /\ Rejected(Candidate(TextOf(i)))) =>
      /\ Cardinality(LinesOf("new", i)) = 1
      /\ \A k \in LinesOf("new", i) :
           stderr[k] = [kind |-> "new", n |-> i, text |-> TextOf(i),
                        detail |-> <<"pretty", <<"new", TextOf(i)>>, TextOf(i)>>]
      /\ LinesOf("missing", i) = {}

C5_Witness ==
  /\ exit = "ok" /\ Len(corpus) = 2 /\ corpus[2].text = "ae" /\ corpus[1].text = "ea"
  /\ LinesOf("new", 1) # {} /\ 1 \in Signalled

ReportKinds == {"missing", "new", "different"}
Reports == {k \in 1..Len(stderr) : stderr[k].kind \in ReportKinds}
Agree(i) == Baseline(TextOf(i)).tag = Candidate(TextOf(i)).tag

\* C6: an item whose two outcomes agree (both accept or both reject) gets no
\* divergence report of any kind; the number of divergence reports on stderr
\* is the number of compared items whose outcomes differ; and when the pool
\* is over every compared item has signalled its completion, whatever its
\* verdict, and the reporter, once over, has counted every signal.
C6_AgreementIsSilent ==
  /\ \A i \in Compared : Agree(i) => \A kind \in ReportKinds : LinesOf(kind, i) = {}
  /\ Cardinality(Reports) = Cardinality({i \in Compared : ~Agree(i)})
  /\ PoolEnded => Compared = Signalled
  /\ rpc = "done" => count = Cardinality(Signalled)

C6_Witness ==
  /\ exit = "ok" /\ Len(corpus) = 2 /\ corpus[1].text = "ee" /\ corpus[2].text = "ae"
  /\ count = 2 /\ Cardinality(Reports) = 1

Heartbeats == SelectSeq(stderr, LAMBDA l : l.kind = "heartbeat")

\* C7: at every moment the heartbeats on stderr are, in this order, the
\* ones for 100, 200, ... up to the largest multiple of 100 that count has
\* reached, each carrying its count: one per positive multiple of 100
\* reached, none for any other count.
C7_Heartbeat ==
  Heartbeats = [j \in 1..(count \div 100) |->
                  [kind |-> "heartbeat", n |-> 100 * j, text |-> "", detail |-> <<>>]]

C7_Witness == count = 200 /\ Len(Heartbeats) = 2 /\ rpc = "run"

DoneLines == {k \in 1..Len(stderr) : stderr[k].kind = "done"}

\* the run takes the pipeline, not the single-file arm
Pipeline == fast.pc = "none"

\* C8: a pipeline run that has ended successfully has printed exactly one "Done!"
\* line, as the last line of stderr, and its count is the number of items
\* the workers received, which is M - k when k <= M; a "Done!" line is on
\* stderr only when the three stages are over.
C8_FinalCount ==
  /\ (Pipeline /\ exit = "ok") =>
       /\ DoneLines = {Len(stderr)}
       /\ stderr[Len(stderr)] = [kind |-> "done", n |-> Len(recvLog), text |-> "", detail |-> <<>>]
       /\ SkipVal <= Len(corpus) => Len(recvLog) = Len(corpus) - SkipVal
  /\ DoneLines # {} => JoinDone /\ exit = "ok"

C8_Witness ==
  /\ exit = "ok" /\ skip = SkipOf(1) /\ Len(corpus) = 2 /\ corpus[2].text = "ea"
  /\ Len(stderr) = 2 /\ stderr[2].kind = "done" /\ stderr[2].n = 1

\* C9: a pipeline run that is over ended in failure exactly when the dispatcher
\* returned an error or the pool returned an error or panicked, and printed
\* the "Done!" line exactly when it ended in success; it is over only when
\* the three stages are.
C9_ExitStatus ==
  (Pipeline /\ exit # "running") =>
    /\ JoinDone
    /\ exit \in {"error", "panic"} <=> (dpc = "err" \/ pool \in {"err", "panic"})
    /\ exit = "ok" <=> DoneLines # {}

C9_Witness ==
  /\ exit = "error" /\ pool = "ok" /\ dpc = "err"
  /\ Cardinality(Reports) = 1 /\ count = 1


\* C10: an item on which an analysis crashes gets no divergence report and
\* no completion signal; once its comparison has run, its worker has
\* panicked with the item's index and source text, printed once; only such
\* items raise a panic; and once a worker has panicked the run cannot end
\* in success nor print the "Done!" line.
C10_CrashIsFatal ==
  /\ \A i \in Received :
       IF Baseline(TextOf(i)).tag = "Panic" \/ Candidate(TextOf(i)).tag = "Panic"
         THEN /\ \A kind \in ReportKinds : LinesOf(kind, i) = {}
              /\ sigCount[i] = 0
              /\ \/ \E t \in Threads : wk[t].pc = "compare" /\ wk[t].i = i
                 \/ /\ \E t \in Threads : wk[t] = [pc |-> "panicked", i |-> i, text |-> TextOf(i)]
                    /\ Cardinality(LinesOf("panic", i)) = 1
         ELSE LinesOf("panic", i) = {}
  /\ (\E t \in Threads : wk[t].pc = "panicked") =>
       /\ exit \in {"running", "panic"}
       /\ DoneLines = {}
       /\ PoolEnded => pool = "panic"

C10_Witness ==
  /\ exit = "panic" /\ Len(corpus) = 2 /\ corpus[1].text = "ap" /\ corpus[2].text = "ae"
  /\ count = 1 /\ LinesOf("new", 1) # {} /\ LinesOf("panic", 0) # {}

\* the rows the corpus iterator has yielded to the dispatcher so far
Yielded == 1..di

\* C11: whatever the skip setting, when a row the corpus iterator has
\* yielded is a failure, the dispatcher has stopped at that row with an
\* error, no item with that row's index or a later one was sent, and the
\* run has not ended in success.
C11_BadRowAborts ==
  \A j \in Yielded :
    ~corpus[j].ok =>
      /\ dpc = "err" /\ di = j
      /\ \A k \in 1..Len(sentLog) : sentLog[k][1] < j - 1
      /\ exit # "ok"

\* the dispatcher has returned the error of sources() or of a row
CorpusError == dpc = "err" /\ (~openOk \/ (di > 0 /\ ~corpus[di].ok))

\* C12 as stated: once the dispatcher has hit a corpus read error, no item
\* is received from the first channel, no analysis runs, and no divergence
\* report or heartbeat is printed any more.
C12_ErrorStopsAll ==
  [][CorpusError => /\ recvLog' = recvLog
                    /\ calls' = calls
                    /\ Reports' = Reports
                    /\ Heartbeats' = Heartbeats]_vars

\* C12, amended: once the dispatcher has hit a corpus read error, nothing
\* with the failed row's index or a later one was sent, and the run neither
\* ends in success nor prints the "Done!" line; the items sent before the
\* error are still received and compared: when the run is over without an
\* analyzer crash it has failed, and every item sent was received, analysed
\* by both analyzers, signalled and counted.
C12_ErrorEndsAfterDrain ==
  CorpusError =>
    /\ \A k \in 1..Len(sentLog) : sentLog[k][1] < di - 1
    /\ exit # "ok" /\ DoneLines = {}
    /\ (exit # "running" /\ NoCrash) =>
         /\ exit = "error"
         /\ recvLog = sentLog
         /\ \A k \in 1..Len(sentLog) : sigCount[sentLog[k][1]] = 1
         /\ count = Len(sentLog)
         /\ calls = [current |-> Len(sentLog), new |-> Len(sentLog)]

C12_Witness ==
  /\ CorpusError /\ exit = "error"
  /\ corpus = <<GoodRow("ae"), BadRow>> /\ skip = SkipUnset
  /\ LinesOf("new", 0) # {} /\ count = 1 /\ calls.current = 1

\* no stage of the pipeline exists and no channel was created
NoPipeline ==
  /\ ~channels /\ dpc = "never" /\ pool = "never" /\ rpc = "never"
  /\ \A t \in Threads : thr[t] = "idle" /\ wk[t] = IdleWorker
  /\ sentLog = <<>> /\ recvLog = <<>> /\ chan1 = <<>> /\ chan2 = 0 /\ count = 0

\* C13 as stated: a run on a .flux file that is over has run exactly one
\* analysis, with the candidate; no baseline analysis, no channel and no
\* stage; it failed with the candidate's pretty error if the candidate
\* rejects the file, and succeeded otherwise.
C13_FastPathOnce ==
  fast.pc = "done" =>
    /\ calls = [current |-> 0, new |-> 1]
    /\ NoPipeline
    /\ IF Rejected(Candidate(fast.source))
         THEN exit = "error" /\ fast.error = PrettyError(Candidate(fast.source).error)
         ELSE exit = "ok"

\* C13, amended: a run on a .flux file never runs the baseline, creates no
\* channel and starts no stage. When the file cannot be read it fails with
\* the read error and no analysis; otherwise it runs exactly one analysis,
\* with the candidate, and fails with the candidate's pretty error if the
\* candidate rejects the file, dies of the panic if the analyzer crashes,
\* and succeeds if the candidate accepts.
C13_FastPath ==
  ~Pipeline =>
    /\ calls.current = 0
    /\ NoPipeline /\ stderr = <<>>
    /\ fast.pc = "flux" => (exit = "running" /\ calls.new = 0)
    /\ fast.pc = "done" =>
         IF ~fast.readable
           THEN calls.new = 0 /\ exit = "error" /\ fast.error = <<"io">>
           ELSE /\ calls.new = 1
                /\ LET result == Candidate(fast.source)
                   IN  CASE Rejected(result) ->
                              exit = "error" /\ fast.error = <<"pretty_error", result.error>>
                         [] Accepted(result) -> exit = "ok" /\ fast.error = <<>>
                         [] OTHER -> exit = "panic" /\ fast.error = <<>>

C13_Witness ==
  /\ fast.pc = "done" /\ fast.readable /\ fast.source = "ae"
  /\ exit = "error" /\ fast.error = <<"pretty_error", <<"new", "ae">>>>
  /\ calls = [current |-> 0, new |-> 1]

\* the indices of the rows before the first failed row: with no skip, the
\* items the corpus gives the dispatcher to send
Readable ==
  IF openOk
    THEN {i \in Indices : \A j \in 1..(i + 1) : corpus[j].ok}
    ELSE {}
\* no analysis of a row the corpus gives crashes
CrashFree ==
  \A i \in Readable :
    ~Crashed(Baseline(TextOf(i))) /\ ~Crashed(Candidate(TextOf(i)))
\* the divergence kind the two outcomes of a source text make, if any
KindsOf(text) ==
  IF Rejected(Baseline(text)) /\ Accepted(Candidate(text)) THEN {"missing"}
  ELSE IF Accepted(Baseline(text)) /\ Rejected(Candidate(text)) THEN {"new"}
  ELSE {}
\* the (index, kind) pairs of the divergence reports on stderr
ReportSet == {<<stderr[k].n, stderr[k].kind>> : k \in Reports}

\* C14: with no skip and no crashing analysis, the result of a pipeline run
\* that is over is a function of the corpus alone, whatever the pool size
\* and the interleaving: its count is the number of rows before the first
\* failed row, its reports are, as a set of (index, kind), the ones the
\* outcomes of these rows make, and it succeeded exactly when the corpus
\* opened and every row read.
C14_Deterministic ==
  (Pipeline /\ exit # "running" /\ ~skip.set /\ CrashFree) =>
    /\ count = Cardinality(Readable)
    /\ ReportSet = {<<i, kind>> \in Readable \X ReportKinds : kind \in KindsOf(TextOf(i))}
    /\ exit = IF openOk /\ AllRead THEN "ok" ELSE "error"

\* two reports printed in the reverse of the order the items were sent in
C14_Witness ==
  /\ exit = "ok" /\ corpus = <<GoodRow("ea"), GoodRow("ae")>> /\ ~skip.set
  /\ count = 2 /\ Len(stderr) = 3
  /\ stderr[1].kind = "new" /\ stderr[1].n = 1
  /\ stderr[2].kind = "missing" /\ stderr[2].n = 0

\* the dispatcher waits for room in the first channel
DispBlocked == dpc = "send" /\ Len(chan1) = ChanCap /\ ~RxDropped
\* a worker waits for room in the second channel
WorkerBlocked == \E t \in Threads : wk[t].pc = "send" /\ chan2 = ChanCap /\ ~FinalRxDropped

\* C15: in no state is the dispatcher blocked on the full first channel
\* while the pool has not been started and no thread is free to start it,
\* nor a worker blocked on the full second channel while the reporter has
\* not been started and no thread is free to start it.
C15_NoStarvedSender ==
  /\ ~(DispBlocked /\ pool = "pending" /\ IdleThreads = {})
  /\ ~(WorkerBlocked /\ rpc = "pending" /\ IdleThreads = {})

\* C16: the first channel never holds more than 128 items and the second
\* never more than 128 signals; a sender that finds its channel full waits
\* with its item and nothing is dropped: every item sent is in the first
\* channel or was received, and every signal sent is in the second channel
\* or was counted.
C16_Bounded ==
  /\ Len(chan1) <= 128 /\ chan2 <= 128
  /\ Len(sentLog) = Len(recvLog) + Len(chan1)
  /\ Cardinality(Signalled) = count + chan2
  /\ DispBlocked => (dheld # NoItem /\ Len(sentLog) < di)
  /\ \A t \in Threads :
       (wk[t].pc = "send" /\ chan2 = 128) => sigCount[wk[t].i] = 0

\* a worker waits at the full second channel with the signal of its item
C16_Witness ==
  /\ WorkerBlocked /\ chan2 = 128 /\ rpc = "pending" /\ count = 0
  /\ Len(recvLog) = 129 /\ Len(chan1) > 0

CrashesOn(text) == Crashed(Baseline(text)) \/ Crashed(Candidate(text))

\* C17: when the pool is torn down by a panic, no worker holds an item any
\* more, and every item that was received and does not crash itself has
\* been compared in full: its completion signal was sent, once, and stderr
\* holds exactly the divergence report its two outcomes make; once the run
\* is over every such signal has been counted.
C17_SiblingsFinish ==
  pool = "panic" =>
    /\ Held = {}
    /\ \A i \in Received :
         ~CrashesOn(TextOf(i)) =>
           /\ sigCount[i] = 1
           /\ \A kind \in ReportKinds :
                Cardinality(LinesOf(kind, i)) = IF kind \in KindsOf(TextOf(i)) THEN 1 ELSE 0
    /\ exit # "running" => count = Cardinality(Signalled)

\* item 1 has crashed on one worker while item 0 was held by another; the
\* report of item 0 follows the panic and its signal was counted
C17_Witness ==
  /\ exit = "panic" /\ corpus = <<GoodRow("ea"), GoodRow("pa")>>
  /\ Len(stderr) = 2
  /\ stderr[1].kind = "panic" /\ stderr[1].n = 1
  /\ stderr[2].kind = "missing" /\ stderr[2].n = 0
  /\ sigCount[0] = 1 /\ count = 1

\* C18: no completion send ever fails and the pool never returns an error:
\* the reporter is over only when the pool is; without an analyzer crash
\* the dispatcher's send never fails either, so that its only error is a
\* corpus read error, and the pool is over only when the dispatcher has
\* closed the first channel and the channel is drained; a pipeline run
\* without a crash fails only by a corpus read error.
C18_NoSendFails ==
  /\ \A t \in Threads : wk[t].pc # "err"
  /\ pool # "err"
  /\ rpc = "done" => PoolEnded
  /\ NoCrash =>
       /\ dpc = "err" => CorpusError
       /\ PoolEnded => (TxDropped /\ chan1 = <<>> /\ pool = "ok")
       /\ (Pipeline /\ exit = "error") => CorpusError

C18_Witness ==
  /\ exit = "ok" /\ NoCrash /\ nthreads = 2 /\ Len(corpus) = LongLen
  /\ Len(sentLog) = LongLen /\ count = LongLen /\ pool = "ok" /\ dpc = "ok"

\* the number of rows at or after index skip: M - k, for k <= M
Retained == IF SkipVal <= Len(corpus) THEN Len(corpus) - SkipVal ELSE 0

ProgressChain ==
  /\ count <= Cardinality(Signalled)
  /\ Cardinality(Signalled) <= Len(recvLog)
  /\ Len(recvLog) <= Len(sentLog)
  /\ Len(sentLog) <= Retained

\* a step that changes count is one turn of the reporter's loop
CountStep ==
  count' # count =>
    /\ count' = count + 1
    /\ rpc = "run" /\ chan2' = chan2 - 1
    /\ UNCHANGED <<dpc, di, dheld, chan1, sentLog, pool, wk, recvLog, sigCount>>

\* C19: in every state count <= completion signals sent <= items received
\* <= items sent <= M - k; and every step leaves count as it is or adds one
\* to it, the latter only as a step of the reporter taking one signal from
\* the second channel, which no step of the dispatcher or a worker is.
C19_Progress == []ProgressChain /\ [][CountStep]_vars

C19_Witness ==
  /\ count = 1 /\ rpc = "run"
  /\ Cardinality(Signalled) > count
  /\ Len(recvLog) > Cardinality(Signalled)
  /\ Len(sentLog) > Len(recvLog)

====
